---- MODULE Spec2Model ----
(***************************************************************************)
(* Telegram <-> Gemini relay bot.  Two entry points share the handlers     *)
(* start and handle_message:                                               *)
(*   02_main.py      long-polling process (variant "main")                 *)
(*   api/webhook.py  HTTP function `handler(request)` (variant "webhook")  *)
(* A behaviour is the life of one process running one of the two entry     *)
(* points.  Coroutines are cut at their suspension points (await).         *)
(*                                                                         *)
(* Strings whose content the code inspects (finish-reason names, f-string  *)
(* interpolation) are sequences of one-character strings; a reply text is  *)
(* the concatenation of its literal pieces and interpolated values.  The   *)
(* Spanish literals are written without accents.                           *)
(***************************************************************************)
EXTENDS Integers, Sequences, FiniteSets, TLC

VARIABLES variant, TELEGRAM_BOT_TOKEN, user_chats, sessions, tasks,
          apps_built, decoded

vars == <<variant, TELEGRAM_BOT_TOKEN, user_chats, sessions, tasks,
          apps_built, decoded>>

\* ------------------------------------------------------------------ bounds
\* updates (long-polling) or HTTP requests (webhook) received by the process
MaxUpdates == 2
\* handler coroutines suspended at an await at the same time
MaxActive == 2

Users == {1, 2}

\* ----------------------------------------------------------------- strings
RECITATION == <<"R","E","C","I","T","A","T","I","O","N">>
SAFETY == <<"S","A","F","E","T","Y">>
MAX_TOKENS == <<"M","A","X","_","T","O","K","E","N","S">>
STOP == <<"S","T","O","P">>
HARM_CATEGORY_HARASSMENT ==
    <<"H","A","R","M","_","C","A","T","E","G","O","R","Y","_",
      "H","A","R","A","S","S","M","E","N","T">>

\* Python: needle in hay
Contains(needle, hay) ==
    \E i \in 0..(Len(hay) - Len(needle)) :
        SubSeq(hay, i + 1, i + Len(needle)) = needle

\* update.effective_user.first_name
first_name(u) == IF u = 1 THEN <<"A","n","a">> ELSE <<"L","u","i","s">>

\* ----------------------------------------------------------- reply texts
GreetingMain ==
    <<"Hola! Soy tu asistente de IA. Enviame un mensaje para empezar a conversar.">>
GreetingWebhook(u) ==
    <<"Hola ">> \o first_name(u)
        \o <<"! Soy tu asistente de IA. Enviame un mensaje y conversaremos.">>
RecitationMsg ==
    <<"Lo siento, no puedo proporcionar esa informacion directamente debido a restricciones de contenido (posible recitacion de fuentes). Por favor, intenta reformular tu pregunta.">>
SafetyMsg ==
    <<"Lo siento, no puedo responder a esa pregunta debido a nuestras politicas de seguridad de contenido. Por favor, intenta con otra pregunta.">>
TemplatedMsg_NoReason(reason) ==
    <<"Lo siento, no pude generar una respuesta clara. Razon: ">>
        \o <<". Puedes intentar reformular?">>
TemplatedMsg(reason) ==
    <<"Lo siento, no pude generar una respuesta clara. Razon: ">> \o reason
        \o <<". Puedes intentar reformular?">>
GenericMsg ==
    <<"Lo siento, no pude generar una respuesta para esa pregunta. Por favor, intenta reformularla.">>
ErrorMsgWebhook ==
    <<"Lo siento, hubo un error al procesar tu solicitud. Por favor, intentalo de nuevo mas tarde.">>
ErrorMsgMain ==
    <<"Lo siento, hubo un problema al procesar tu solicitud. Intentalo de nuevo mas tarde.">>
ErrorMsg(v) == IF v = "main" THEN ErrorMsgMain ELSE ErrorMsgWebhook

\* ------------------------------------------------- HTTP responses (webhook)
HttpResponse(status, body) == [statusCode |-> status, body |-> body]
TokenMissingResponse ==
    HttpResponse(500, <<"Internal Server Error: Bot Token not configured">>)
OkResponse == HttpResponse(200, <<"OK">>)
\* the message of the exception request.json() / Update.de_json raises
DecodeError == <<"E","x","p","e","c","t","i","n","g"," ","v","a","l","u","e">>
ErrorResponse(e) == HttpResponse(500, <<"Error: ">> \o e)
LivenessResponse ==
    HttpResponse(200, <<"Bot esta corriendo (webhook endpoint). Envia una peticion POST de Telegram.">>)
NoHttp == [statusCode |-> 0, body |-> <<>>]

\* ------------------------------------------------- responses of the model
\* response.candidates[0]: a candidate has the attribute finish_reason, or only
\* safety_ratings, or neither (hasattr is membership in DOMAIN)
Candidates ==
    { [finish_reason |-> RECITATION],
      [finish_reason |-> SAFETY],
      [finish_reason |-> MAX_TOKENS],
      [safety_ratings |-> <<[blocked |-> FALSE, category |-> HARM_CATEGORY_HARASSMENT],
                            [blocked |-> TRUE, category |-> HARM_CATEGORY_HARASSMENT]>>],
      [safety_ratings |-> <<[blocked |-> FALSE, category |-> HARM_CATEGORY_HARASSMENT]>>],
      [index |-> 0] }
ReplyText == <<"V","a","l","e">>
Responses ==
    { [text |-> ReplyText, candidates |-> <<[finish_reason |-> STOP]>>] }
    \cup { [text |-> <<>>, candidates |-> <<>>] }
    \cup { [text |-> <<>>, candidates |-> <<c>>] : c \in Candidates }

\* ------------------------------------------------------ inbound updates
\* CommandHandler("start"), MessageHandler(TEXT & ~COMMAND), anything else.
\* The handlers pass update.message.text on without reading it: the text of
\* the n-th arrival is identified by n (0: the update carries no message text).
Updates(n) ==
    { [kind |-> "start", user |-> u, text |-> 0] : u \in Users }
    \cup { [kind |-> "message", user |-> u, text |-> n] : u \in Users }
    \cup { [kind |-> "other", user |-> 1, text |-> 0] }
NoUpdate == [kind |-> "none", user |-> 0, text |-> 0]

\* request.method and what request.json() / Update.de_json make of the body
Malformed == [kind |-> "malformed", user |-> 0, text |-> 0]
Requests(n) ==
    { [method |-> "POST", body |-> b] : b \in Updates(n) \cup {Malformed} }
    \cup { [method |-> m, body |-> NoUpdate] : m \in {"GET", "HEAD"} }
NoRequest == [method |-> "", body |-> NoUpdate]

\* --------------------------------------------------- LLM client adapter
\* what `send_message` / `send_message_async` does: it raises or it returns a response
LlmOutcomes ==
    { [raises |-> TRUE, response |-> [text |-> <<>>, candidates |-> <<>>]] }
    \cup { [raises |-> FALSE, response |-> r] : r \in Responses }
NoResponse == [text |-> <<>>, candidates |-> <<>>]

\* llm_model.start_chat(history=[]): the handle of the new session; sessions[h]
\* is the sequence of texts submitted to session h so far
start_chat(sess) == Len(sess) + 1

\* update.message.reply_text(text) raises or delivers; Telegram rejects an empty text
SendOutcomes(text) == IF text = <<>> THEN {FALSE} ELSE {TRUE, FALSE}

\* ------------------------------------------------------ session registry
\* user_id not in user_chats
NotInChats_Always(chats, u) == TRUE
NotInChats(chats, u) == u \notin DOMAIN chats

\* if user_id not in user_chats: user_chats[user_id] = llm_model.start_chat(history=[])
EnsureChats_Rebuilt(chats, sess, u) ==
    IF NotInChats(chats, u) THEN (u :> start_chat(sess)) ELSE chats
EnsureChats(chats, sess, u) ==
    IF NotInChats(chats, u) THEN (u :> start_chat(sess)) @@ chats ELSE chats
EnsureSessions(chats, sess, u) ==
    IF NotInChats(chats, u) THEN Append(sess, <<>>) ELSE sess

\* chat_session = user_chats[user_id]
ChatOf_Lowest(chats, u) ==
    chats[CHOOSE x \in DOMAIN chats : \A y \in DOMAIN chats : x <= y]
ChatOf(chats, u) == chats[u]

\* ------------------------------------------------ response classification
hasattr(obj, name) == name \in DOMAIN obj
None == <<>>
SEGURIDAD == <<"S","E","G","U","R","I","D","A","D",":"," ">>

\* the first rating with rating.blocked, as the for/break finds it
FirstBlocked_Any(ratings) == IF ratings = <<>> THEN 0 ELSE 1
FirstBlocked(ratings) ==
    LET hits == { k \in 1..Len(ratings) : ratings[k].blocked }
    IN  IF hits = {} THEN 0 ELSE CHOOSE k \in hits : \A j \in hits : k <= j

FinishReasonOf(response) ==
    IF response.candidates # <<>>
    THEN LET first_candidate == response.candidates[1]
         IN  IF hasattr(first_candidate, "finish_reason")
             THEN first_candidate.finish_reason
             ELSE IF hasattr(first_candidate, "safety_ratings")
                     /\ first_candidate.safety_ratings # <<>>
                  THEN LET k == FirstBlocked(first_candidate.safety_ratings)
                       IN  IF k = 0 THEN None
                           ELSE SEGURIDAD \o first_candidate.safety_ratings[k].category
                  ELSE None
    ELSE None

IsRecitation_Never(finish_reason) == FALSE
IsRecitation(finish_reason) == Contains(RECITATION, finish_reason)
IsSafety_Never(finish_reason) == FALSE
IsSafety(finish_reason) == Contains(SAFETY, finish_reason)

ClassifiedReply(finish_reason) ==
    IF finish_reason # None
    THEN IF IsRecitation(finish_reason) THEN RecitationMsg
         ELSE IF IsSafety(finish_reason) THEN SafetyMsg
         ELSE TemplatedMsg(finish_reason)
    ELSE GenericMsg

\* the text handle_message passes to reply_text for a response
ReplyFor_Classified(v, response) == ClassifiedReply(FinishReasonOf(response))
ReplyFor(v, response) ==
    IF v = "main" THEN response.text
    ELSE IF response.text # <<>> THEN response.text
         ELSE ClassifiedReply(FinishReasonOf(response))

Greeting(v, u) == IF v = "main" THEN GreetingMain ELSE GreetingWebhook(u)

\* ------------------------------------------------------------ handlers
\* One entry of `tasks` per update (main) or HTTP request (webhook):
\*   req, kind, user, text   what arrived
\*   pc         "llm" awaiting send_message_async, "reply" awaiting the reply_text
\*              of the greeting or of the response, "errreply" awaiting the
\*              reply_text of the except block, "done" returned, "raised" an
\*              exception left the handler, "idle" no handler ran
\*   created    the handler called start_chat
\*   chat       the handle the handler resolved
\*   prior      what the session had received before this text
\*   llm, response   outcome of the LLM call
\*   tried      texts passed to reply_text, in order; sent: those delivered
\*   http       the dict `handler` returned
\*   logged     error_handler ran for this update
NewTask(req, upd) ==
    [req |-> req, kind |-> upd.kind, user |-> upd.user, text |-> upd.text,
     pc |-> "idle", created |-> FALSE, chat |-> 0, prior |-> <<>>,
     llm |-> "none", response |-> NoResponse, tried |-> <<>>, sent |-> <<>>,
     http |-> NoHttp, logged |-> FALSE]

\* not TELEGRAM_BOT_TOKEN
TokenMissing_Never(token) == FALSE
TokenMissing(token) == token = ""

\* what `handler` returns once process_update has returned: process_update
\* hands an exception of the routed handler to the dispatcher's error
\* processing and returns
AfterProcessUpdate_Rethrow(t) ==
    IF t.llm = "raise" \/ t.pc = "raised" THEN ErrorResponse(<<"e">>) ELSE OkResponse
AfterProcessUpdate(t) == OkResponse

\* the routed handler is over (returned, raised, or none matched): in
\* api/webhook.py process_update returns and `handler` returns its dict; in
\* 02_main.py the dispatcher calls error_handler when the handler raised
Finish(v, t) ==
    IF t.pc \in {"llm", "reply", "errreply"} THEN t
    ELSE IF v = "webhook" THEN [t EXCEPT !.http = AfterProcessUpdate(t)]
    ELSE [t EXCEPT !.logged = (t.pc = "raised")]
\* what `handler` returns when request.json() / Update.de_json raised e
AfterDecodeFailure_Ok(e) == OkResponse
AfterDecodeFailure(e) == ErrorResponse(e)

Suspended == { i \in 1..Len(tasks) : tasks[i].pc \in {"llm", "reply", "errreply"} }
CanArrive == Len(tasks) < MaxUpdates /\ Cardinality(Suspended) < MaxActive

\* start: get-or-create, then await reply_text(greeting)
start_Reset(req, upd) ==
    LET chats1 == (upd.user :> start_chat(sessions)) @@ user_chats
    IN  /\ user_chats' = chats1
        /\ sessions' = Append(sessions, <<>>)
        /\ tasks' = Append(tasks,
              [NewTask(req, upd) EXCEPT
                  !.created = TRUE,
                  !.chat = ChatOf(chats1, upd.user),
                  !.tried = <<Greeting(variant, upd.user)>>,
                  !.pc = "reply"])
start(req, upd) ==
    LET chats1 == EnsureChats(user_chats, sessions, upd.user)
    IN  /\ user_chats' = chats1
        /\ sessions' = EnsureSessions(user_chats, sessions, upd.user)
        /\ tasks' = Append(tasks,
              [NewTask(req, upd) EXCEPT
                  !.created = NotInChats(user_chats, upd.user),
                  !.chat = ChatOf(chats1, upd.user),
                  !.tried = <<Greeting(variant, upd.user)>>,
                  !.pc = "reply"])

\* handle_message after the LLM call: the except block on a raise, else the reply
AfterLlm_NoExcept(v, t, out) ==
    IF out.raises
    THEN [t EXCEPT !.llm = "raise", !.pc = "raised"]
    ELSE [t EXCEPT !.llm = "ok", !.response = out.response,
                   !.tried = Append(@, ReplyFor(v, out.response)), !.pc = "reply"]
AfterLlm(v, t, out) ==
    IF out.raises
    THEN [t EXCEPT !.llm = "raise", !.tried = Append(@, ErrorMsg(v)), !.pc = "errreply"]
    ELSE [t EXCEPT !.llm = "ok", !.response = out.response,
                   !.tried = Append(@, ReplyFor(v, out.response)), !.pc = "reply"]

\* handle_message up to its first await: get-or-create, submit the text.
\* 02_main.py calls the blocking send_message, so the LLM outcome is part of
\* this step; api/webhook.py awaits send_message_async.
handle_message(req, upd) ==
    \E out \in LlmOutcomes :
        LET chats1 == EnsureChats(user_chats, sessions, upd.user)
            sess1 == EnsureSessions(user_chats, sessions, upd.user)
            chat == ChatOf(chats1, upd.user)
            t0 == [NewTask(req, upd) EXCEPT
                      !.created = NotInChats(user_chats, upd.user),
                      !.chat = chat, !.prior = sess1[chat],
                      !.llm = "pending", !.pc = "llm"]
        IN  /\ user_chats' = chats1
            /\ sessions' = [sess1 EXCEPT ![chat] = Append(@, upd.text)]
            /\ tasks' = Append(tasks,
                  IF variant = "main" THEN AfterLlm(variant, t0, out) ELSE t0)

\* application.process_update(update): the first handler whose filter matches
process_update(req, upd) ==
    IF upd.kind = "start" THEN start(req, upd)
    ELSE IF upd.kind = "message" THEN handle_message(req, upd)
    ELSE /\ tasks' = Append(tasks, Finish(variant, NewTask(req, upd)))
         /\ UNCHANGED <<user_chats, sessions>>

\* 02_main.py: run_polling hands the next update to the dispatcher
PollUpdate ==
    /\ variant = "main"
    /\ CanArrive
    /\ \E upd \in Updates(Len(tasks) + 1) : process_update(NoRequest, upd)
    /\ UNCHANGED <<variant, TELEGRAM_BOT_TOKEN, apps_built, decoded>>

\* request.method == 'POST'
IsPost_NotGet(req) == req.method # "GET"
IsPost(req) == req.method = "POST"

\* api/webhook.py handler(request), up to its return or the routed handler's first await
handler ==
    /\ variant = "webhook"
    /\ CanArrive
    /\ \E req \in Requests(Len(tasks) + 1) :
          IF TokenMissing(TELEGRAM_BOT_TOKEN)
          THEN /\ tasks' = Append(tasks,
                      [NewTask(req, NoUpdate) EXCEPT !.http = TokenMissingResponse])
               /\ UNCHANGED <<user_chats, sessions, apps_built, decoded>>
          ELSE /\ apps_built' = apps_built + 1
               /\ IF IsPost(req)
                  THEN IF req.body = Malformed
                       THEN /\ tasks' = Append(tasks,
                                   [NewTask(req, NoUpdate) EXCEPT
                                       !.http = AfterDecodeFailure(DecodeError)])
                            /\ UNCHANGED <<user_chats, sessions, decoded>>
                       ELSE /\ decoded' = decoded + 1
                            /\ process_update(req, req.body)
                  ELSE /\ tasks' = Append(tasks,
                              [NewTask(req, NoUpdate) EXCEPT !.http = LivenessResponse])
                       /\ UNCHANGED <<user_chats, sessions, decoded>>
    /\ UNCHANGED <<variant, TELEGRAM_BOT_TOKEN>>

\* api/webhook.py: send_message_async returns or raises
LlmReturn(i) ==
    /\ tasks[i].pc = "llm"
    /\ \E out \in LlmOutcomes :
          tasks' = [tasks EXCEPT ![i] = AfterLlm(variant, tasks[i], out)]
    /\ UNCHANGED <<variant, TELEGRAM_BOT_TOKEN, user_chats, sessions, apps_built, decoded>>

\* the task after reply_text of the greeting / the response delivered (ok) or raised
AfterReply_Propagate(v, t, ok) ==
    IF ok THEN [t EXCEPT !.sent = Append(@, t.tried[Len(t.tried)]), !.pc = "done"]
    ELSE [t EXCEPT !.pc = "raised"]
AfterReply_Finally(v, t, ok) ==
    IF ok THEN [t EXCEPT !.sent = Append(@, t.tried[Len(t.tried)]),
                         !.tried = Append(@, ErrorMsg(v)), !.pc = "errreply"]
    ELSE IF t.kind = "message"
         THEN [t EXCEPT !.tried = Append(@, ErrorMsg(v)), !.pc = "errreply"]
         ELSE [t EXCEPT !.pc = "raised"]
AfterReply(v, t, ok) ==
    IF ok THEN [t EXCEPT !.sent = Append(@, t.tried[Len(t.tried)]), !.pc = "done"]
    ELSE IF t.kind = "message"
         THEN [t EXCEPT !.tried = Append(@, ErrorMsg(v)), !.pc = "errreply"]
         ELSE [t EXCEPT !.pc = "raised"]

ReplyReturn(i) ==
    /\ tasks[i].pc = "reply"
    /\ \E ok \in SendOutcomes(tasks[i].tried[Len(tasks[i].tried)]) :
          tasks' = [tasks EXCEPT ![i] = Finish(variant, AfterReply(variant, tasks[i], ok))]
    /\ UNCHANGED <<variant, TELEGRAM_BOT_TOKEN, user_chats, sessions, apps_built, decoded>>

\* the task after the except block's reply_text delivered (ok) or raised
AfterErrorReply(t, ok) ==
    IF ok THEN [t EXCEPT !.sent = Append(@, t.tried[Len(t.tried)]), !.pc = "done"]
    ELSE [t EXCEPT !.pc = "raised"]

ErrorReplyReturn(i) ==
    /\ tasks[i].pc = "errreply"
    /\ \E ok \in SendOutcomes(tasks[i].tried[Len(tasks[i].tried)]) :
          tasks' = [tasks EXCEPT ![i] = Finish(variant, AfterErrorReply(tasks[i], ok))]
    /\ UNCHANGED <<variant, TELEGRAM_BOT_TOKEN, user_chats, sessions, apps_built, decoded>>

\* the process after module import: 02_main.py only runs with a token
\* (Application.builder().token(None).build() fails in main())
Init ==
    /\ variant \in {"main", "webhook"}
    /\ TELEGRAM_BOT_TOKEN \in {"", "123:ABC"}
    /\ (variant = "main" => TELEGRAM_BOT_TOKEN # "")
    /\ user_chats = <<>>
    /\ sessions = <<>>
    /\ tasks = <<>>
    /\ apps_built = 0
    /\ decoded = 0

Next ==
    \/ PollUpdate
    \/ handler
    \/ \E i \in 1..Len(tasks) : LlmReturn(i)
    \/ \E i \in 1..Len(tasks) : ReplyReturn(i)
    \/ \E i \in 1..Len(tasks) : ErrorReplyReturn(i)

Spec == Init /\ [][Next]_vars

\* ================================================================ claims
Idx == 1..Len(tasks)
\* the update was routed to on_start / on_message
Routed(i) == tasks[i].kind \in {"start", "message"}
IsMessage(i) == tasks[i].kind = "message"
\* the handler is over: it returned or an exception left it
Over(i) == tasks[i].pc \in {"done", "raised"}
TasksOf(u) == { i \in Idx : Routed(i) /\ tasks[i].user = u }
Lowest(S) == CHOOSE x \in S : \A y \in S : x <= y

\* the texts of u's messages among the first n arrivals, in arrival order
RECURSIVE MessagesOf(_, _)
MessagesOf(u, n) ==
    IF n = 0 THEN <<>>
    ELSE IF tasks[n].kind = "message" /\ tasks[n].user = u
         THEN Append(MessagesOf(u, n - 1), tasks[n].text)
         ELSE MessagesOf(u, n - 1)

\* C1: within one process, a user has a registry entry exactly when some
\* on_start / on_message ran for that user; the first such invocation called
\* start_chat, no later one did, every one of them resolved the handle the
\* registry holds, and start_chat was called once per registered user.
C1_GetOrCreate ==
    /\ DOMAIN user_chats \subseteq Users
    /\ Len(sessions) = Cardinality(DOMAIN user_chats)
    /\ \A u \in Users :
          /\ (TasksOf(u) # {}) <=> (u \in DOMAIN user_chats)
          /\ \A i \in TasksOf(u) :
                /\ tasks[i].created <=> (i = Lowest(TasksOf(u)))
                /\ tasks[i].chat = user_chats[u]
                /\ tasks[i].chat \in 1..Len(sessions)

\* a /start and a message of one user: the first created the session, the second reused it
C1_Witness ==
    \E i, j \in Idx :
        /\ i < j /\ tasks[i].user = tasks[j].user
        /\ tasks[i].kind = "start" /\ tasks[j].kind = "message"
        /\ tasks[i].created /\ ~tasks[j].created
        /\ tasks[j].chat = tasks[i].chat

\* C2 (state part): a message is submitted to its sender's session, distinct
\* users hold distinct sessions, and each user's session has received exactly
\* that user's texts, in arrival order.
C2_OwnSession ==
    /\ \A i \in Idx : IsMessage(i) => tasks[i].chat = user_chats[tasks[i].user]
    /\ \A u, v \in DOMAIN user_chats : u # v => user_chats[u] # user_chats[v]
    /\ \A u \in DOMAIN user_chats :
          sessions[user_chats[u]] = MessagesOf(u, Len(tasks))

\* C2 (frame part): a step that adds, removes or changes user v's registry
\* entry, or changes what v's session has received, is the arrival of an
\* update of v.
C2_Frame ==
    \A v \in Users :
        ( \/ (v \in DOMAIN user_chats) # (v \in DOMAIN user_chats')
          \/ /\ v \in DOMAIN user_chats
             /\ v \in DOMAIN user_chats'
             /\ \/ user_chats'[v] # user_chats[v]
                \/ sessions'[user_chats[v]] # sessions[user_chats[v]] )
        => /\ Len(tasks') = Len(tasks) + 1
           /\ tasks'[Len(tasks')].user = v
           /\ Routed(Len(tasks))'

\* C2: per-user independence of the registry and of the conversation histories
C2_Independence == []C2_OwnSession /\ [][C2_Frame]_vars

\* two users have each sent a message; each session holds its own user's text
C2_Witness ==
    \E i, j \in Idx :
        /\ IsMessage(i) /\ IsMessage(j)
        /\ tasks[i].user # tasks[j].user
        /\ sessions[tasks[i].chat] = <<tasks[i].text>>
        /\ sessions[tasks[j].chat] = <<tasks[j].text>>

\* on_message got a response with non-empty text
HasText(i) ==
    IsMessage(i) /\ tasks[i].llm = "ok" /\ tasks[i].response.text # <<>>
\* api/webhook.py on_message got a response with empty text
EmptyWebhook(i) ==
    variant = "webhook" /\ IsMessage(i) /\ tasks[i].llm = "ok" /\ tasks[i].response.text = <<>>
\* ... whose first candidate carries a finish reason
HasFinishReason(i) ==
    /\ EmptyWebhook(i)
    /\ tasks[i].response.candidates # <<>>
    /\ "finish_reason" \in DOMAIN tasks[i].response.candidates[1]
FinishReason(i) == tasks[i].response.candidates[1].finish_reason
CannedReplies == {RecitationMsg, SafetyMsg, GenericMsg, ErrorMsgMain, ErrorMsgWebhook}

\* C3 as stated: a response with non-empty text R yields exactly one reply, R.
C3_Original ==
    \A i \in Idx :
        HasText(i) /\ Over(i)
        => tasks[i].tried = <<tasks[i].response.text>>
           /\ tasks[i].sent = <<tasks[i].response.text>>

\* C3 (amended): a response with non-empty text R makes on_message pass R
\* verbatim to reply_text first; when that send is delivered R is the only reply
\* and on_message returns; only when that send raises does the except block
\* pass the fixed error message to reply_text, and then R was not delivered.
C3_TextReply ==
    \A i \in Idx :
        HasText(i)
        => LET R == tasks[i].response.text
           IN  /\ tasks[i].tried \in {<<R>>, <<R, ErrorMsg(variant)>>}
               /\ tasks[i].pc = "reply" => tasks[i].tried = <<R>> /\ tasks[i].sent = <<>>
               /\ tasks[i].tried = <<R>> /\ Over(i)
                     => tasks[i].pc = "done" /\ tasks[i].sent = <<R>>
               /\ tasks[i].tried # <<R>>
                     => tasks[i].sent \in {<<>>, <<ErrorMsg(variant)>>}

\* R was delivered and on_message returned, in both variants' shape
C3_Witness ==
    \E i \in Idx :
        /\ HasText(i) /\ tasks[i].pc = "done"
        /\ tasks[i].sent = <<ReplyText>>

\* C4 as stated: when the LLM call raises, on_message returns without raising
\* and exactly one reply, the fixed error message, is sent.
C4_Original ==
    \A i \in Idx :
        IsMessage(i) /\ tasks[i].llm = "raise" /\ Over(i)
        => tasks[i].pc = "done" /\ tasks[i].sent = <<ErrorMsg(variant)>>

\* C4 (amended): when the LLM call raises, on_message passes exactly one text to
\* reply_text, the fixed error message; when that send is delivered it is the
\* only reply and on_message returns without raising; when that send raises, the
\* exception leaves on_message and no reply was sent.
C4_LlmRaises ==
    \A i \in Idx :
        IsMessage(i) /\ tasks[i].llm = "raise"
        => /\ tasks[i].tried = <<ErrorMsg(variant)>>
           /\ tasks[i].pc \in {"errreply", "done", "raised"}
           /\ tasks[i].pc = "done" => tasks[i].sent = <<ErrorMsg(variant)>>
           /\ tasks[i].pc # "done" => tasks[i].sent = <<>>

\* the LLM call raised, the error message was delivered, on_message returned
C4_Witness ==
    \E i \in Idx :
        /\ IsMessage(i) /\ tasks[i].llm = "raise" /\ tasks[i].pc = "done"
        /\ tasks[i].sent = <<ErrorMsg(variant)>>

\* C5: api/webhook.py, empty text and a first candidate whose finish reason
\* names RECITATION: the reply on_message chooses is the recitation message;
\* neither the safety, the templated nor the generic message is ever passed to
\* reply_text, and once delivered the recitation message is the only reply.
C5_Recitation ==
    \A i \in Idx :
        HasFinishReason(i) /\ Contains(RECITATION, FinishReason(i))
        => /\ tasks[i].tried[1] = RecitationMsg
           /\ \A k \in 1..Len(tasks[i].tried) :
                 tasks[i].tried[k] \in {RecitationMsg, ErrorMsgWebhook}
           /\ tasks[i].pc = "done" /\ Len(tasks[i].tried) = 1
                 => tasks[i].sent = <<RecitationMsg>>

C5_Witness ==
    \E i \in Idx :
        /\ HasFinishReason(i) /\ FinishReason(i) = RECITATION
        /\ tasks[i].pc = "done" /\ tasks[i].sent = <<RecitationMsg>>

\* C6: api/webhook.py, empty text and a first candidate whose finish reason is a
\* safety reason: the reply on_message chooses is the safety-policy message.
C6_Safety ==
    \A i \in Idx :
        /\ HasFinishReason(i)
        /\ Contains(SAFETY, FinishReason(i))
        /\ ~Contains(RECITATION, FinishReason(i))
        => /\ tasks[i].tried[1] = SafetyMsg
           /\ \A k \in 1..Len(tasks[i].tried) :
                 tasks[i].tried[k] \in {SafetyMsg, ErrorMsgWebhook}
           /\ tasks[i].pc = "done" /\ Len(tasks[i].tried) = 1
                 => tasks[i].sent = <<SafetyMsg>>

C6_Witness ==
    \E i \in Idx :
        /\ HasFinishReason(i) /\ FinishReason(i) = SAFETY
        /\ tasks[i].pc = "done" /\ tasks[i].sent = <<SafetyMsg>>

\* C7: api/webhook.py, empty text and a first candidate whose finish reason X
\* names neither RECITATION nor SAFETY: the reply on_message chooses is the
\* template's two literals around X, character for character, and no canned
\* message.
C7_Templated ==
    \A i \in Idx :
        /\ HasFinishReason(i)
        /\ FinishReason(i) # <<>>
        /\ ~Contains(SAFETY, FinishReason(i))
        /\ ~Contains(RECITATION, FinishReason(i))
        => LET X == FinishReason(i)
               m == tasks[i].tried[1]
           IN  /\ Len(m) = Len(X) + 2
               /\ m[1] = "Lo siento, no pude generar una respuesta clara. Razon: "
               /\ SubSeq(m, 2, Len(X) + 1) = X
               /\ m[Len(m)] = ". Puedes intentar reformular?"
               /\ m \notin CannedReplies
               /\ tasks[i].pc = "done" /\ Len(tasks[i].tried) = 1
                     => tasks[i].sent = <<m>>

C7_Witness ==
    \E i \in Idx :
        /\ HasFinishReason(i) /\ FinishReason(i) = MAX_TOKENS
        /\ tasks[i].pc = "done" /\ Len(tasks[i].sent) = 1
        /\ Contains(MAX_TOKENS, tasks[i].sent[1])

\* the HTTP request was a POST whose body request.json() / Update.de_json decoded
DecodedPost(i) ==
    /\ variant = "webhook"
    /\ tasks[i].req.method = "POST"
    /\ tasks[i].req.body.kind \in {"start", "message", "other"}
    /\ tasks[i].kind = tasks[i].req.body.kind
\* the HTTP request was a POST on which request.json() / Update.de_json raised
UndecodablePost(i) ==
    /\ variant = "webhook"
    /\ TELEGRAM_BOT_TOKEN # ""
    /\ tasks[i].req.method = "POST"
    /\ tasks[i].req.body.kind = "malformed"

\* C8: api/webhook.py with no bot token: every request, whatever its method and
\* body, is answered 500 'Internal Server Error: Bot Token not configured',
\* and no Application was built, no payload decoded, no handler run, no reply
\* passed to reply_text and no session or registry entry created.
C8_TokenMissing ==
    (variant = "webhook" /\ TELEGRAM_BOT_TOKEN = "")
    => /\ apps_built = 0
       /\ decoded = 0
       /\ user_chats = <<>>
       /\ sessions = <<>>
       /\ \A i \in Idx :
             /\ tasks[i].http.statusCode = 500
             /\ tasks[i].http.body = <<"Internal Server Error: Bot Token not configured">>
             /\ tasks[i].kind = "none"
             /\ tasks[i].pc = "idle"
             /\ tasks[i].tried = <<>>
             /\ ~tasks[i].created

\* without a token, a POST carrying a message and a GET have both been answered
C8_Witness ==
    /\ variant = "webhook"
    /\ TELEGRAM_BOT_TOKEN = ""
    /\ \E i, j \in Idx :
          /\ tasks[i].req.method = "POST" /\ tasks[i].req.body.kind = "message"
          /\ tasks[j].req.method = "GET"
          /\ tasks[i].http.statusCode = 500 /\ tasks[j].http.statusCode = 500

C10_Answer ==
    \A i \in Idx :
        UndecodablePost(i)
        => /\ tasks[i].http.statusCode = 500
           /\ tasks[i].http.body = <<"Error: ">> \o DecodeError
           /\ tasks[i].kind = "none"
           /\ tasks[i].pc = "idle"
           /\ tasks[i].tried = <<>>
           /\ tasks[i].sent = <<>>
           /\ ~tasks[i].created

\* C10 (frame part): the step that receives such a POST leaves the session
\* registry and the sessions as they were and counts no decoded update.
C10_Frame ==
    (Len(tasks') = Len(tasks) + 1 /\ UndecodablePost(Len(tasks))')
    => /\ user_chats' = user_chats
       /\ sessions' = sessions
       /\ decoded' = decoded

\* C10: an undecodable POST is answered 500 'Error: <message>' and changes nothing
C10_DecodeFailure == []C10_Answer /\ [][C10_Frame]_vars

\* an undecodable POST arrived after a user had a session, and was answered 500
C10_Witness ==
    \E i, j \in Idx :
        /\ i < j
        /\ tasks[i].created
        /\ UndecodablePost(j)
        /\ tasks[j].http.statusCode = 500
        /\ user_chats # <<>>

\* the HTTP request was not a POST and the bot token is configured
NonPost(i) ==
    /\ variant = "webhook"
    /\ TELEGRAM_BOT_TOKEN # ""
    /\ tasks[i].req.method # "POST"

\* C11 (state part): api/webhook.py with the token configured: a request whose
\* method is not POST is answered 200 with the fixed liveness body; no update
\* was processed for it, no handler ran and nothing was passed to reply_text.
C11_Answer ==
    \A i \in Idx :
        NonPost(i)
        => /\ tasks[i].http.statusCode = 200
           /\ tasks[i].http.body =
                 <<"Bot esta corriendo (webhook endpoint). Envia una peticion POST de Telegram.">>
           /\ tasks[i].kind = "none"
           /\ tasks[i].pc = "idle"
           /\ tasks[i].llm = "none"
           /\ tasks[i].tried = <<>>
           /\ tasks[i].sent = <<>>
           /\ ~tasks[i].created

\* C11 (frame part): the step that receives such a request leaves the session
\* registry and the sessions as they were, decodes nothing and changes no
\* earlier request's record.
C11_Frame ==
    (Len(tasks') = Len(tasks) + 1 /\ NonPost(Len(tasks))')
    => /\ user_chats' = user_chats
       /\ sessions' = sessions
       /\ decoded' = decoded
       /\ SubSeq(tasks', 1, Len(tasks)) = tasks

\* C11: a non-POST request is answered with the liveness message and changes nothing
C11_Liveness == []C11_Answer /\ [][C11_Frame]_vars

\* a GET and a HEAD were answered while a user already had a session
C11_Witness ==
    \E i, j \in Idx :
        /\ NonPost(i) /\ tasks[i].req.method = "HEAD"
        /\ tasks[i].http.statusCode = 200
        /\ tasks[j].created
        /\ user_chats # <<>>

\* C12 as stated: an invocation of `handler` that starts when no other one is
\* in flight (sequential invocations) and routes a message submits the text to
\* a session that has received nothing before, whatever earlier invocations did.
C12_Original ==
    [][ ( /\ variant = "webhook"
          /\ Suspended = {}
          /\ Len(tasks') = Len(tasks) + 1
          /\ IsMessage(Len(tasks))' )
        => tasks'[Len(tasks')].prior = <<>> ]_vars

\* an exception was raised in step 2 (the LLM call) or in step 3 (sending the
\* reply chosen for the response) of on_message
RaisedInSteps(i) ==
    IsMessage(i) /\ (tasks[i].llm = "raise" \/ (tasks[i].llm = "ok" /\ Len(tasks[i].tried) > 1))

C14_OneSession ==
    /\ \A i, j \in Idx :
          Routed(i) /\ Routed(j) /\ i # j
          => IF tasks[i].user = tasks[j].user
             THEN /\ tasks[i].chat = tasks[j].chat
                  /\ ~(tasks[i].created /\ tasks[j].created)
             ELSE tasks[i].chat # tasks[j].chat
    /\ \A u \in DOMAIN user_chats :
          Cardinality({ i \in TasksOf(u) : tasks[i].created }) = 1

\* C14 (step part): no step, taken while other invocations are suspended or
\* not, changes the handle stored for a user, and a step that creates a session
\* is the arrival of an update of a user who had no entry.
C14_NoOverwrite ==
    /\ \A u \in DOMAIN user_chats :
          u \in DOMAIN user_chats' /\ user_chats'[u] = user_chats[u]
    /\ Len(sessions') # Len(sessions)
          => /\ Len(sessions') = Len(sessions) + 1
             /\ Len(tasks') = Len(tasks) + 1
             /\ tasks'[Len(tasks')].user \notin DOMAIN user_chats
             /\ user_chats'[tasks'[Len(tasks')].user] = Len(sessions')

\* C14: the registry's check-and-insert is atomic with respect to the awaits
C14_Atomic == []C14_OneSession /\ [][C14_NoOverwrite]_vars

\* two invocations of the same user are suspended at an await at the same
\* time; the second found the entry the first had inserted
C14_Witness ==
    \E i, j \in Idx :
        /\ i < j
        /\ Routed(i) /\ Routed(j)
        /\ tasks[i].user = tasks[j].user
        /\ {i, j} \subseteq Suspended
        /\ tasks[i].created /\ ~tasks[j].created
        /\ tasks[i].chat = tasks[j].chat

\* C15 (step part): every step keeps every registry entry as it is, and a step
\* that is not the arrival of an update (the LLM call returning or raising, a
\* reply delivered or raising, the except block, error_handler) leaves the
\* whole registry and the sessions exactly as they were.
C15_Kept ==
    /\ \A u \in DOMAIN user_chats :
          u \in DOMAIN user_chats' /\ user_chats'[u] = user_chats[u]
    /\ Len(tasks') = Len(tasks) => user_chats' = user_chats /\ sessions' = sessions

\* C15 (state part): after an on_message whose LLM call raised, and after
\* error_handler ran, the user's entry is the handle that invocation used, and
\* every later invocation of the user resolved it without calling start_chat.
C15_Reused ==
    \A i \in Idx :
        Routed(i) /\ (tasks[i].llm = "raise" \/ tasks[i].logged \/ tasks[i].pc = "raised")
        => /\ tasks[i].user \in DOMAIN user_chats
           /\ user_chats[tasks[i].user] = tasks[i].chat
           /\ \A j \in Idx :
                 j > i /\ Routed(j) /\ tasks[j].user = tasks[i].user
                 => tasks[j].chat = tasks[i].chat /\ ~tasks[j].created

\* C15: registry entries are never removed or replaced
C15_NeverDestroyed == []C15_Reused /\ [][C15_Kept]_vars

\* 02_main.py: the LLM call raised, the error reply raised too and
\* error_handler ran; the user's next message used the same session
C15_Witness ==
    \E i, j \in Idx :
        /\ i < j
        /\ IsMessage(i) /\ tasks[i].llm = "raise" /\ tasks[i].logged
        /\ IsMessage(j) /\ tasks[j].user = tasks[i].user
        /\ tasks[j].chat = tasks[i].chat
        /\ ~tasks[j].created
        /\ user_chats[tasks[j].user] = tasks[i].chat

\* api/webhook.py on_message got an empty text whose first candidate has no
\* finish_reason attribute but carries safety ratings
HasOnlyRatings(i) ==
    /\ EmptyWebhook(i)
    /\ tasks[i].response.candidates # <<>>
    /\ "finish_reason" \notin DOMAIN tasks[i].response.candidates[1]
    /\ "safety_ratings" \in DOMAIN tasks[i].response.candidates[1]
Ratings(i) == tasks[i].response.candidates[1].safety_ratings
BlockedRating(i) ==
    HasOnlyRatings(i) /\ \E k \in 1..Len(Ratings(i)) : Ratings(i)[k].blocked

\* C16 as stated: empty text and a first candidate that has no finish reason
\* but a blocked safety rating: the reply on_message chooses is the
\* safety-policy message.
C16_Original ==
    \A i \in Idx :
        BlockedRating(i) /\ tasks[i].tried # <<>>
        => tasks[i].tried[1] = SafetyMsg

\* no reason is discoverable: no candidate, or a first candidate with neither a
\* finish reason nor a blocked safety rating
NoReason(i) ==
    /\ EmptyWebhook(i)
    /\ \/ tasks[i].response.candidates = <<>>
       \/ /\ "finish_reason" \notin DOMAIN tasks[i].response.candidates[1]
          /\ ~BlockedRating(i)

\* C17: api/webhook.py, empty text and no discoverable reason: the reply
\* on_message chooses is the generic message; the recitation, the safety and
\* the templated message are never passed to reply_text, and once delivered the
\* generic message is the only reply.
C17_Generic ==
    \A i \in Idx :
        NoReason(i)
        => /\ tasks[i].tried[1] = GenericMsg
           /\ \A k \in 1..Len(tasks[i].tried) :
                 tasks[i].tried[k] \in {GenericMsg, ErrorMsgWebhook}
           /\ tasks[i].pc = "done" /\ Len(tasks[i].tried) = 1
                 => tasks[i].sent = <<GenericMsg>>

\* the generic message was delivered once for a response without candidates
\* and once for a candidate whose safety ratings are all unblocked
C17_Witness ==
    \E i, j \in Idx :
        /\ NoReason(i) /\ tasks[i].response.candidates = <<>>
        /\ tasks[i].sent = <<GenericMsg>>
        /\ NoReason(j) /\ HasOnlyRatings(j)
        /\ tasks[j].sent = <<GenericMsg>>

\* C18 as stated: every invocation of on_message that is over has sent exactly
\* one reply.
C18_Original ==
    \A i \in Idx :
        IsMessage(i) /\ Over(i) => Len(tasks[i].sent) = 1

\* C18 (amended): an invocation of on_message calls reply_text at most twice
\* (the reply for the response, then the error message only after a raise) and
\* at most one of these calls returns; exactly one has returned, the last one
\* made, when on_message returns; none has when an exception leaves on_message.
C18_AtMostOne ==
    \A i \in Idx :
        IsMessage(i)
        => /\ Len(tasks[i].tried) <= 2
           /\ Len(tasks[i].sent) <= 1
           /\ tasks[i].pc = "done"
                 => tasks[i].sent = <<tasks[i].tried[Len(tasks[i].tried)]>>
           /\ tasks[i].pc # "done" => tasks[i].sent = <<>>

\* one invocation replied once and returned; in another the reply and then the
\* error message both raised, and nothing was sent
C18_Witness ==
    \E i, j \in Idx :
        /\ IsMessage(i) /\ tasks[i].pc = "done" /\ Len(tasks[i].sent) = 1
        /\ IsMessage(j) /\ tasks[j].pc = "raised"
        /\ tasks[j].llm = "ok" /\ Len(tasks[j].tried) = 2
        /\ tasks[j].sent = <<>>

IsStart(i) == tasks[i].kind = "start"

C20_Original ==
    \A i \in Idx :
        IsMessage(i) /\ tasks[i].tried # <<>>
        => /\ tasks[i].llm = "ok"
                 => tasks[i].tried[1] = ReplyFor("webhook", tasks[i].response)
           /\ tasks[i].llm = "raise"
                 => tasks[i].tried[1] \in {ErrorMsgMain, ErrorMsgWebhook}

====
